---- MODULE Spec2Model ----
(***************************************************************************)
(* Verification model of the rune / runestick value runtime:               *)
(*   - the Shared cell borrow discipline as driven by the reflection       *)
(*     conversions of String, Bytes, Option and Range                      *)
(*     (runestick/src/reflection/{string,bytes,option}.rs, range.rs);      *)
(*   - Variant structural comparison (rune/src/runtime/variant.rs);        *)
(*   - Range::into_iterator and the integer iterators it builds.           *)
(*   - the Hash constructors over paths (runestick/src/hash.rs);           *)
(*   - the Args impls for host tuples (runestick/src/args.rs).             *)
(***************************************************************************)
EXTENDS Integers, Sequences, FiniteSets, TLC

\* ------------------------------------------------------------------ bounds
\* Largest strong count (handles + guards + payload references) of one cell.
MaxRc == 3

\* Width in bits of the model's two's-complement integers (i64 scaled down).
IntBits == 3

\* Longest tuple / struct payload of a variant.
MaxLen == 2

\* The cells of the heap, the host texts and the one byte buffer used as inputs.
Cells == {1, 2}
Texts == {"a", "b"}
SampleBytes == <<1, 2>>

VARIABLES
    heap,    \* cell id -> Shared cell (payload, borrow counters, strong count)
    held,    \* cell id -> number of Value handles the host holds
    guards,  \* cell id -> bag of outstanding (guard, pointer) pairs
    origin,  \* cell id -> the host datum to_value built the cell from
    last,    \* the last operation and its result
    rng,     \* the Range handed to into_iterator
    iter,    \* the iterator into_iterator built, if any
    status,  \* "new", "iterating", "ended", "panic" or "not an iterator"
    yielded, \* the items next() has returned so far
    build,   \* "debug" (overflow checks) or "release" (wrapping)
    va, vb,  \* the two variants handed to a comparison
    vres,    \* the last comparison and its result
    hpath,   \* the path handed to the Hash constructors
    hres,    \* constructor -> what it fed the hasher and the Hash it returned
    atuple,  \* the host argument tuple handed to the Args calls
    astack,  \* the operand stack
    ares     \* the last Args call and its result

heapvars == <<heap, held, guards, origin, last>>
rangevars == <<rng, iter, status, yielded, build>>
variantvars == <<va, vb, vres>>
hashvars == <<hpath, hres>>
argsvars == <<atuple, astack, ares>>
vars == <<heap, held, guards, origin, last, rng, iter, status, yielded, build, va, vb, vres,
          hpath, hres, atuple, astack, ares>>

\* ------------------------------------------------------------------ values
Val(tag, cell, text, n) == [tag |-> tag, cell |-> cell, text |-> text, n |-> n]
ValUnit == Val("Unit", 0, "", 0)
ValInteger(i) == Val("Integer", 0, "", i)
ValStaticString(t) == Val("StaticString", 0, t, 0)
ValShared(tag, c) == Val(tag, c, "", 0)

OptNone == [some |-> FALSE, value |-> ValUnit]
OptSome(v) == [some |-> TRUE, value |-> v]

RangeNew(start, end, limits) == [start |-> start, end |-> end, limits |-> limits]

\* The payload of a cell, and a host datum produced by a conversion.
Payload(kind, text, bytes, opt, range) ==
    [kind |-> kind, text |-> text, bytes |-> bytes, opt |-> opt, range |-> range]
NoPayload == Payload("none", "", <<>>, OptNone, RangeNew(OptNone, OptNone, "HalfOpen"))
StringPayload(t) == [NoPayload EXCEPT !.kind = "String", !.text = t]
BytesPayload(b) == [NoPayload EXCEPT !.kind = "Bytes", !.bytes = b]
OptionPayload(o) == [NoPayload EXCEPT !.kind = "Option", !.opt = o]
RangePayload(r) == [NoPayload EXCEPT !.kind = "Range", !.range = r]

\* A cell: the type of its payload, the payload, the borrow counters, whether
\* the payload was taken out, and the strong count (0: not allocated).
FreeCell ==
    [tag |-> "none", data |-> NoPayload, shared |-> 0, exclusive |-> 0,
     taken |-> FALSE, rc |-> 0]

\* ------------------------------------------------------------ Shared cell
\* Shared::new: a fresh cell, strong count 1, no borrow.
Shared_new(h, c, data) ==
    [h EXCEPT ![c] = [tag |-> data.kind, data |-> data, shared |-> 0,
                      exclusive |-> 0, taken |-> FALSE, rc |-> 1]]

FreeCells(h) == {c \in Cells : h[c].rc = 0}
\* The allocator hands out the lowest free cell.
Alloc(h) == CHOOSE c \in FreeCells(h) : \A d \in FreeCells(h) : c <= d

\* Drop of one strong reference to a cell whose payload holds no other cell.
Shared_drop_leaf(h, c) ==
    IF h[c].rc > 1 THEN [h EXCEPT ![c].rc = @ - 1] ELSE [h EXCEPT ![c] = FreeCell]

\* Drop of one strong reference; the last one drops the payload too, and with
\* it the Value an Option payload holds.
Shared_drop(h, c) ==
    IF h[c].rc > 1 THEN [h EXCEPT ![c].rc = @ - 1]
    ELSE LET inner == h[c].data.opt IN
         IF h[c].data.kind = "Option" /\ inner.some /\ inner.value.cell \in Cells
         THEN Shared_drop_leaf([h EXCEPT ![c] = FreeCell], inner.value.cell)
         ELSE [h EXCEPT ![c] = FreeCell]

\* The borrow protocol: any number of shared borrows or one exclusive borrow.
CanShared(cl) == ~cl.taken /\ cl.exclusive = 0
CanExclusive(cl) == ~cl.taken /\ cl.shared = 0 /\ cl.exclusive = 0

\* borrow_ref(&self): the handle is kept by the caller.
Shared_borrow_ref(h, c) ==
    IF CanShared(h[c]) THEN [ok |-> TRUE, heap |-> [h EXCEPT ![c].shared = @ + 1]]
    ELSE [ok |-> FALSE, heap |-> h]

\* Drop of a Ref obtained from borrow_ref.
Ref_drop(h, c) == [h EXCEPT ![c].shared = @ - 1]

\* owned_ref(self) / owned_mut(self): the handle moves into the guard on
\* success and is dropped on failure.
Shared_owned_ref(h, c) ==
    IF CanShared(h[c]) THEN [ok |-> TRUE, heap |-> [h EXCEPT ![c].shared = @ + 1]]
    ELSE [ok |-> FALSE, heap |-> Shared_drop(h, c)]

Shared_owned_mut(h, c) ==
    IF CanExclusive(h[c]) THEN [ok |-> TRUE, heap |-> [h EXCEPT ![c].exclusive = 1]]
    ELSE [ok |-> FALSE, heap |-> Shared_drop(h, c)]

\* into_ref(self) / into_mut(self): the owning borrows used by range.rs.
Shared_into_ref(h, c) == Shared_owned_ref(h, c)
Shared_into_mut(h, c) == Shared_owned_mut(h, c)

\* take(self): needs the cell free of borrows, moves the payload out and
\* leaves the cell taken for every other handle; the handle is dropped.
Shared_take(h, c) ==
    IF CanExclusive(h[c])
    THEN [ok |-> TRUE, data |-> h[c].data,
          heap |-> Shared_drop_leaf(
                       [h EXCEPT ![c].taken = TRUE, ![c].data = NoPayload], c)]
    ELSE [ok |-> FALSE, data |-> NoPayload, heap |-> Shared_drop(h, c)]

IsSharedGuard(g) == g \in {"RawOwnedRef", "RawRef"}

\* Drop of a raw guard: the borrow is released, then the strong reference.
Guard_drop(h, c, g) ==
    Shared_drop(IF IsSharedGuard(g) THEN [h EXCEPT ![c].shared = @ - 1]
                ELSE [h EXCEPT ![c].exclusive = @ - 1], c)

\* Value::into_string / into_bytes / into_option / into_range: the tag check.
Value_into(value, tag) == [ok |-> value.tag = tag, cell |-> value.cell]

\* Drop of a Value: inline values own nothing.
Value_drop(h, value) ==
    IF value.cell \in Cells THEN Shared_drop(h, value.cell) ELSE h

\* ------------------------------------------------------------------ results
Fail(err, h) ==
    [ok |-> FALSE, err |-> err, heap |-> h, guard |-> "none", ptr |-> "none",
     cell |-> 0, out |-> NoPayload]
OkLoan(h, c, guard, ptr) ==
    [ok |-> TRUE, err |-> "none", heap |-> h, guard |-> guard, ptr |-> ptr,
     cell |-> c, out |-> NoPayload]
OkOwned(h, out) ==
    [ok |-> TRUE, err |-> "none", heap |-> h, guard |-> "none", ptr |-> "none",
     cell |-> 0, out |-> out]

\* ------------------------------------------------- reflection/bytes.rs
\* Mutant of FromValue for Bytes: the payload is taken instead of cloned.
FromValue_Bytes_Take(value, h) ==
    LET bytes == Value_into(value, "Bytes") IN
    IF ~bytes.ok THEN Fail("ExpectedType", Value_drop(h, value))
    ELSE LET t == Shared_take(h, bytes.cell) IN
         IF ~t.ok THEN Fail("BorrowError", t.heap)
         ELSE OkOwned(t.heap, t.data)

\* FromValue for Bytes: clone under a temporary shared borrow.
FromValue_Bytes(value, h) ==
    LET bytes == Value_into(value, "Bytes") IN
    IF ~bytes.ok THEN Fail("ExpectedType", Value_drop(h, value))
    ELSE LET b == Shared_borrow_ref(h, bytes.cell) IN
         IF ~b.ok THEN Fail("BorrowError", Shared_drop(h, bytes.cell))
         ELSE OkOwned(Shared_drop(Ref_drop(b.heap, bytes.cell), bytes.cell),
                      BytesPayload(b.heap[bytes.cell].data.bytes))

\* Mutant of `&Bytes`: the borrow is taken but the handle is dropped instead
\* of moving into the guard, so the guard holds no reference to the cell.
UnsafeFromValue_RefBytes_HandleDropped(value, h) ==
    LET bytes == Value_into(value, "Bytes") IN
    IF ~bytes.ok THEN Fail("ExpectedType", Value_drop(h, value))
    ELSE LET r == Shared_borrow_ref(h, bytes.cell) IN
         IF ~r.ok THEN Fail("BorrowError", Shared_drop(h, bytes.cell))
         ELSE OkLoan(Shared_drop(r.heap, bytes.cell), bytes.cell, "RawOwnedRef", "const")

\* UnsafeFromValue for &Bytes
UnsafeFromValue_RefBytes(value, h) ==
    LET bytes == Value_into(value, "Bytes") IN
    IF ~bytes.ok THEN Fail("ExpectedType", Value_drop(h, value))
    ELSE LET r == Shared_owned_ref(h, bytes.cell) IN
         IF ~r.ok THEN Fail("BorrowError", r.heap)
         ELSE OkLoan(r.heap, bytes.cell, "RawOwnedRef", "const")

\* Mutant of `&mut Bytes`: the shared borrow of `&Bytes` is taken, and a
\* mutable pointer handed out under it.
UnsafeFromValue_MutBytes_SharedBorrow(value, h) ==
    LET bytes == Value_into(value, "Bytes") IN
    IF ~bytes.ok THEN Fail("ExpectedType", Value_drop(h, value))
    ELSE LET r == Shared_owned_ref(h, bytes.cell) IN
         IF ~r.ok THEN Fail("BorrowError", r.heap)
         ELSE OkLoan(r.heap, bytes.cell, "RawOwnedRef", "mut")

\* UnsafeFromValue for &mut Bytes
UnsafeFromValue_MutBytes(value, h) ==
    LET bytes == Value_into(value, "Bytes") IN
    IF ~bytes.ok THEN Fail("ExpectedType", Value_drop(h, value))
    ELSE LET r == Shared_owned_mut(h, bytes.cell) IN
         IF ~r.ok THEN Fail("BorrowError", r.heap)
         ELSE OkLoan(r.heap, bytes.cell, "RawOwnedMut", "mut")

\* Mutant of `&[u8]`: the exclusive borrow is taken for a shared slice.
UnsafeFromValue_Slice_ExclusiveBorrow(value, h) ==
    LET bytes == Value_into(value, "Bytes") IN
    IF ~bytes.ok THEN Fail("ExpectedType", Value_drop(h, value))
    ELSE LET r == Shared_owned_mut(h, bytes.cell) IN
         IF ~r.ok THEN Fail("BorrowError", r.heap)
         ELSE OkLoan(r.heap, bytes.cell, "RawOwnedMut", "const")

\* UnsafeFromValue for &[u8]: the pointer is to the inner slice.
UnsafeFromValue_Slice(value, h) ==
    LET bytes == Value_into(value, "Bytes") IN
    IF ~bytes.ok THEN Fail("ExpectedType", Value_drop(h, value))
    ELSE LET r == Shared_owned_ref(h, bytes.cell) IN
         IF ~r.ok THEN Fail("BorrowError", r.heap)
         ELSE OkLoan(r.heap, bytes.cell, "RawOwnedRef", "const")

\* ------------------------------------------------ reflection/string.rs
\* FromValue for String
FromValue_String(value, h) ==
    IF value.tag = "String"
    THEN LET b == Shared_borrow_ref(h, value.cell) IN
         IF ~b.ok THEN Fail("BorrowError", Shared_drop(h, value.cell))
         ELSE OkOwned(Shared_drop(Ref_drop(b.heap, value.cell), value.cell),
                      StringPayload(b.heap[value.cell].data.text))
    ELSE IF value.tag = "StaticString"
    THEN OkOwned(h, StringPayload(value.text))
    ELSE Fail("ExpectedType", Value_drop(h, value))

\* ToValue for Box<str>: a fresh String cell.
ToValue_BoxStr(text, h) ==
    LET c == Alloc(h) IN
    [value |-> ValShared("String", c), heap |-> Shared_new(h, c, StringPayload(text))]

\* FromValue for Box<str>
FromValue_BoxStr(value, h) ==
    LET string == Value_into(value, "String") IN
    IF ~string.ok THEN Fail("ExpectedType", Value_drop(h, value))
    ELSE LET b == Shared_borrow_ref(h, string.cell) IN
         IF ~b.ok THEN Fail("BorrowError", Shared_drop(h, string.cell))
         ELSE OkOwned(Shared_drop(Ref_drop(b.heap, string.cell), string.cell),
                      StringPayload(b.heap[string.cell].data.text))

\* Mutant of `&str`: the guard of a Value::String is forgotten (None is
\* returned in its place), so its borrow is never released.
UnsafeFromValue_Str_GuardForgotten(value, h) ==
    IF value.tag = "String"
    THEN LET r == Shared_owned_ref(h, value.cell) IN
         IF ~r.ok THEN Fail("BorrowError", r.heap)
         ELSE OkLoan(r.heap, value.cell, "none", "const")
    ELSE IF value.tag = "StaticString"
    THEN OkLoan(h, 0, "none", "const")
    ELSE Fail("ExpectedType", Value_drop(h, value))

\* UnsafeFromValue for &str
UnsafeFromValue_Str(value, h) ==
    IF value.tag = "String"
    THEN LET r == Shared_owned_ref(h, value.cell) IN
         IF ~r.ok THEN Fail("BorrowError", r.heap)
         ELSE OkLoan(r.heap, value.cell, "RawOwnedRef", "const")
    ELSE IF value.tag = "StaticString"
    THEN OkLoan(h, 0, "none", "const")
    ELSE Fail("ExpectedType", Value_drop(h, value))

\* UnsafeFromValue for &mut str
UnsafeFromValue_MutStr(value, h) ==
    IF value.tag = "String"
    THEN LET r == Shared_owned_mut(h, value.cell) IN
         IF ~r.ok THEN Fail("BorrowError", r.heap)
         ELSE OkLoan(r.heap, value.cell, "RawOwnedMut", "mut")
    ELSE Fail("ExpectedType", Value_drop(h, value))

\* Mutant of `&String`: the StaticString arm is missing, as in `&mut String`.
UnsafeFromValue_RefString_NoStaticArm(value, h) ==
    IF value.tag = "String"
    THEN LET r == Shared_owned_ref(h, value.cell) IN
         IF ~r.ok THEN Fail("BorrowError", r.heap)
         ELSE OkLoan(r.heap, value.cell, "RawOwnedRef", "const")
    ELSE Fail("ExpectedType", Value_drop(h, value))

\* UnsafeFromValue for &String
UnsafeFromValue_RefString(value, h) ==
    IF value.tag = "String"
    THEN LET r == Shared_owned_ref(h, value.cell) IN
         IF ~r.ok THEN Fail("BorrowError", r.heap)
         ELSE OkLoan(r.heap, value.cell, "RawOwnedRef", "const")
    ELSE IF value.tag = "StaticString"
    THEN OkLoan(h, 0, "none", "const")
    ELSE Fail("ExpectedType", Value_drop(h, value))

\* Mutant of `&mut String`: the shared borrow of `&String` is taken, and a
\* mutable pointer handed out under it.
UnsafeFromValue_MutString_SharedBorrow(value, h) ==
    IF value.tag = "String"
    THEN LET r == Shared_owned_ref(h, value.cell) IN
         IF ~r.ok THEN Fail("BorrowError", r.heap)
         ELSE OkLoan(r.heap, value.cell, "RawOwnedRef", "mut")
    ELSE Fail("ExpectedType", Value_drop(h, value))

\* UnsafeFromValue for &mut String
UnsafeFromValue_MutString(value, h) ==
    IF value.tag = "String"
    THEN LET r == Shared_owned_mut(h, value.cell) IN
         IF ~r.ok THEN Fail("BorrowError", r.heap)
         ELSE OkLoan(r.heap, value.cell, "RawOwnedMut", "mut")
    ELSE Fail("ExpectedType", Value_drop(h, value))

\* ToValue for String: a fresh String cell.
ToValue_String(text, h) ==
    LET c == Alloc(h) IN
    [value |-> ValShared("String", c), heap |-> Shared_new(h, c, StringPayload(text))]

\* ------------------------------------------------ reflection/option.rs
\* A host Option<String>.
HostSome(text) == OptSome(Val("host", 0, text, 0))
HostOptions == {OptNone} \cup {HostSome(t) : t \in Texts}

\* Mutant of ToValue for Option<T>: the payload of Some is not stored.
ToValue_Option_SomeLost(x, h) ==
    LET c == Alloc(h) IN
    [value |-> ValShared("Option", c),
     heap |-> Shared_new(h, c, OptionPayload(OptNone))]

\* ToValue for Option<T>, T = String: the payload is converted first, then
\* the Option cell is built.
ToValue_Option(x, h) ==
    IF x.some
    THEN LET some == ToValue_String(x.value.text, h)
             c == Alloc(some.heap) IN
         [value |-> ValShared("Option", c),
          heap |-> Shared_new(some.heap, c, OptionPayload(OptSome(some.value)))]
    ELSE LET c == Alloc(h) IN
         [value |-> ValShared("Option", c),
          heap |-> Shared_new(h, c, OptionPayload(OptNone))]

\* FromValue for Option<T>, T = String: the payload is taken out of the cell
\* and converted.
FromValue_Option(value, h) ==
    LET option == Value_into(value, "Option") IN
    IF ~option.ok THEN Fail("ExpectedType", Value_drop(h, value))
    ELSE LET t == Shared_take(h, option.cell) IN
         IF ~t.ok THEN Fail("BorrowError", t.heap)
         ELSE IF t.data.opt.some
              THEN LET s == FromValue_String(t.data.opt.value, t.heap) IN
                   IF s.ok THEN OkOwned(s.heap, OptionPayload(HostSome(s.out.text)))
                   ELSE s
              ELSE OkOwned(t.heap, OptionPayload(OptNone))

\* UnsafeFromValue for &Option<Value>
UnsafeFromValue_RefOption(value, h) ==
    LET option == Value_into(value, "Option") IN
    IF ~option.ok THEN Fail("ExpectedType", Value_drop(h, value))
    ELSE LET r == Shared_owned_ref(h, option.cell) IN
         IF ~r.ok THEN Fail("BorrowError", r.heap)
         ELSE OkLoan(r.heap, option.cell, "RawOwnedRef", "const")

\* UnsafeFromValue for &mut Option<Value>
UnsafeFromValue_MutOption(value, h) ==
    LET option == Value_into(value, "Option") IN
    IF ~option.ok THEN Fail("ExpectedType", Value_drop(h, value))
    ELSE LET r == Shared_owned_mut(h, option.cell) IN
         IF ~r.ok THEN Fail("BorrowError", r.heap)
         ELSE OkLoan(r.heap, option.cell, "RawOwnedMut", "mut")

\* --------------------------------------------------------------- range.rs
IntMin == -(2 ^ (IntBits - 1))
IntMax == 2 ^ (IntBits - 1) - 1
Ints == IntMin .. IntMax

ValFloat == Val("Float", 0, "", 0)
IsInteger(o) == o.some /\ o.value.tag = "Integer"

\* ToValue for ops::Range, RangeFrom, RangeFull, RangeInclusive, RangeTo and
\* RangeToInclusive with Idx = i64: the Range each one builds.
ToValue_OpsRange(start, end) ==
    RangeNew(OptSome(ValInteger(start)), OptSome(ValInteger(end)), "HalfOpen")
ToValue_OpsRangeFrom(start) ==
    RangeNew(OptSome(ValInteger(start)), OptNone, "HalfOpen")
ToValue_OpsRangeFull == RangeNew(OptNone, OptNone, "HalfOpen")
ToValue_OpsRangeInclusive(start, end) ==
    RangeNew(OptSome(ValInteger(start)), OptSome(ValInteger(end)), "Closed")
ToValue_OpsRangeTo(end) ==
    RangeNew(OptNone, OptSome(ValInteger(end)), "HalfOpen")
ToValue_OpsRangeToInclusive(end) ==
    RangeNew(OptNone, OptSome(ValInteger(end)), "Closed")

\* Value::from(range): the Range moves into a fresh cell.
Value_from_Range(range, h) ==
    LET c == Alloc(h) IN
    [value |-> ValShared("Range", c), heap |-> Shared_new(h, c, RangePayload(range))]

\* An iterator built by into_iterator: the host range it wraps.
NoIter == [kind |-> "none", name |-> "", start |-> 0, end |-> 0, exhausted |-> FALSE]
MkIter(kind, name, start, end) ==
    [kind |-> kind, name |-> name, start |-> start, end |-> end, exhausted |-> FALSE]

\* Mutant of into_iterator: the closed range is built half-open.
Range_into_iterator_ClosedAsHalfOpen(self) ==
    IF self.limits = "HalfOpen" /\ IsInteger(self.start) /\ IsInteger(self.end)
    THEN [ok |-> TRUE, panic |-> "",
          iter |-> MkIter("Range", "std::ops::Range",
                          self.start.value.n, self.end.value.n)]
    ELSE IF self.limits = "Closed" /\ IsInteger(self.start) /\ IsInteger(self.end)
    THEN [ok |-> TRUE, panic |-> "",
          iter |-> MkIter("Range", "std::ops::RangeToInclusive",
                          self.start.value.n, self.end.value.n)]
    ELSE IF IsInteger(self.start) /\ ~self.end.some
    THEN [ok |-> TRUE, panic |-> "",
          iter |-> MkIter("RangeFrom", "std::ops::RangeFrom", self.start.value.n, 0)]
    ELSE [ok |-> FALSE, panic |-> "not an iterator", iter |-> NoIter]

\* Mutant of into_iterator: the open-ended arm matches HalfOpen limits only.
Range_into_iterator_FromHalfOpenOnly(self) ==
    IF self.limits = "HalfOpen" /\ IsInteger(self.start) /\ IsInteger(self.end)
    THEN [ok |-> TRUE, panic |-> "",
          iter |-> MkIter("Range", "std::ops::Range",
                          self.start.value.n, self.end.value.n)]
    ELSE IF self.limits = "Closed" /\ IsInteger(self.start) /\ IsInteger(self.end)
    THEN [ok |-> TRUE, panic |-> "",
          iter |-> MkIter("RangeInclusive", "std::ops::RangeToInclusive",
                          self.start.value.n, self.end.value.n)]
    ELSE IF self.limits = "HalfOpen" /\ IsInteger(self.start) /\ ~self.end.some
    THEN [ok |-> TRUE, panic |-> "",
          iter |-> MkIter("RangeFrom", "std::ops::RangeFrom", self.start.value.n, 0)]
    ELSE [ok |-> FALSE, panic |-> "not an iterator", iter |-> NoIter]

\* Range::into_iterator
Range_into_iterator(self) ==
    IF self.limits = "HalfOpen" /\ IsInteger(self.start) /\ IsInteger(self.end)
    THEN [ok |-> TRUE, panic |-> "",
          iter |-> MkIter("Range", "std::ops::Range",
                          self.start.value.n, self.end.value.n)]
    ELSE IF self.limits = "Closed" /\ IsInteger(self.start) /\ IsInteger(self.end)
    THEN [ok |-> TRUE, panic |-> "",
          iter |-> MkIter("RangeInclusive", "std::ops::RangeToInclusive",
                          self.start.value.n, self.end.value.n)]
    ELSE IF IsInteger(self.start) /\ ~self.end.some
    THEN [ok |-> TRUE, panic |-> "",
          iter |-> MkIter("RangeFrom", "std::ops::RangeFrom", self.start.value.n, 0)]
    ELSE [ok |-> FALSE, panic |-> "not an iterator", iter |-> NoIter]

\* FromValue for Range: the payload is taken out of the cell.
FromValue_Range(value, h) ==
    LET range == Value_into(value, "Range") IN
    IF ~range.ok THEN Fail("ExpectedType", Value_drop(h, value))
    ELSE LET t == Shared_take(h, range.cell) IN
         IF ~t.ok THEN Fail("BorrowError", t.heap)
         ELSE OkOwned(t.heap, t.data)

\* UnsafeFromValue for &Range
UnsafeFromValue_RefRange(value, h) ==
    LET object == Value_into(value, "Range") IN
    IF ~object.ok THEN Fail("ExpectedType", Value_drop(h, value))
    ELSE LET r == Shared_into_ref(h, object.cell) IN
         IF ~r.ok THEN Fail("BorrowError", r.heap)
         ELSE OkLoan(r.heap, object.cell, "RawRef", "const")

\* UnsafeFromValue for &mut Range
UnsafeFromValue_MutRange(value, h) ==
    LET object == Value_into(value, "Range") IN
    IF ~object.ok THEN Fail("ExpectedType", Value_drop(h, value))
    ELSE LET r == Shared_into_mut(h, object.cell) IN
         IF ~r.ok THEN Fail("BorrowError", r.heap)
         ELSE OkLoan(r.heap, object.cell, "RawMut", "mut")

\* Value::from(bytes): the Bytes move into a fresh cell.
Value_from_Bytes(bytes, h) ==
    LET c == Alloc(h) IN
    [value |-> ValShared("Bytes", c), heap |-> Shared_new(h, c, BytesPayload(bytes))]

\* ------------------------------------------------- the host and the heap
LoanKinds == {"RawOwnedRef", "RawOwnedMut", "RawRef", "RawMut"} \X {"const", "mut"}
NoLoans == [k \in LoanKinds |-> 0]

ValueOf(c) == ValShared(heap[c].tag, c)
HeldValues == {ValueOf(c) : c \in {d \in Cells : held[d] > 0}}

\* The cell a value points to, as it was before the operation.
Pre(value) == IF value.cell \in Cells THEN heap[value.cell] ELSE FreeCell

\* The (guard, pointer) pairs outstanding on that cell before the operation.
PreGuards(value) == IF value.cell \in Cells THEN guards[value.cell] ELSE NoLoans

Record(op, value, r) ==
    [op |-> op, arg |-> value, ok |-> r.ok, err |-> r.err, guard |-> r.guard,
     ptr |-> r.ptr, out |-> r.out, pre |-> Pre(value), preg |-> PreGuards(value),
     from |-> IF value.cell \in Cells THEN origin[value.cell] ELSE NoPayload]

\* The host datum a cell was built from is remembered while the cell lives.
Origins(h, new, input) ==
    [c \in Cells |-> IF h[c].rc = 0 THEN NoPayload
                     ELSE IF c = new THEN input ELSE origin[c]]

\* A conversion consumes the handle it is given; a successful loan hands a
\* (pointer, guard) pair to the host.
Convert(op, value, r) ==
    /\ heap' = r.heap
    /\ held' = IF value.cell \in Cells THEN [held EXCEPT ![value.cell] = @ - 1]
               ELSE held
    /\ guards' = IF r.ok /\ r.guard # "none"
                 THEN [guards EXCEPT ![r.cell][<<r.guard, r.ptr>>] = @ + 1]
                 ELSE guards
    /\ origin' = Origins(r.heap, 0, NoPayload)
    /\ last' = Record(op, value, r)
    /\ UNCHANGED <<rangevars, variantvars, hashvars, argsvars>>

\* A to_value call hands the host the one handle to a fresh value.
Create(op, r, input) ==
    /\ heap' = r.heap
    /\ held' = [held EXCEPT ![r.value.cell] = 1]
    /\ last' = [op |-> op, arg |-> r.value, ok |-> TRUE, err |-> "none",
                guard |-> "none", ptr |-> "none", out |-> input,
                pre |-> heap[r.value.cell], preg |-> guards[r.value.cell],
                from |-> NoPayload]
    /\ origin' = Origins(r.heap, r.value.cell, input)
    /\ UNCHANGED <<guards, rangevars, variantvars, hashvars, argsvars>>

RangeSamples == {ToValue_OpsRange(0, 1), ToValue_OpsRangeFrom(0)}

Call_ToValue_BoxStr ==
    \E t \in Texts :
        /\ FreeCells(heap) # {}
        /\ Create("ToValue for Box<str>", ToValue_BoxStr(t, heap), StringPayload(t))

Call_Value_from_Bytes ==
    /\ FreeCells(heap) # {}
    /\ Create("Value::from(Bytes)", Value_from_Bytes(SampleBytes, heap),
              BytesPayload(SampleBytes))

Call_ToValue_Option ==
    \E x \in HostOptions :
        /\ Cardinality(FreeCells(heap)) >= (IF x.some THEN 2 ELSE 1)
        /\ Create("ToValue for Option<T>", ToValue_Option(x, heap), OptionPayload(x))

Call_ToValue_Range ==
    \E r \in RangeSamples :
        /\ FreeCells(heap) # {}
        /\ Create("ToValue for ops::Range", Value_from_Range(r, heap), RangePayload(r))

\* Value::clone: one more handle to the same cell.
CloneValue ==
    \E c \in Cells :
        /\ held[c] > 0
        /\ heap[c].rc < MaxRc
        /\ heap' = [heap EXCEPT ![c].rc = @ + 1]
        /\ held' = [held EXCEPT ![c] = @ + 1]
        /\ last' = Record("Value::clone", ValueOf(c), OkOwned(heap, NoPayload))
        /\ UNCHANGED <<guards, origin, rangevars, variantvars, hashvars, argsvars>>

\* Drop of a Value the host holds.
DropValue ==
    \E v \in HeldValues :
        Convert("drop(Value)", v, OkOwned(Value_drop(heap, v), NoPayload))

\* Drop of a guard the host holds: its pointer is given up with it.
DropGuard ==
    \E c \in Cells, k \in LoanKinds :
        /\ guards[c][k] > 0
        /\ heap' = Guard_drop(heap, c, k[1])
        /\ guards' = [guards EXCEPT ![c][k] = @ - 1]
        /\ origin' = Origins(Guard_drop(heap, c, k[1]), 0, NoPayload)
        /\ last' = Record("drop(guard)", ValueOf(c), OkOwned(heap, NoPayload))
        /\ UNCHANGED <<held, rangevars, variantvars, hashvars, argsvars>>

Call_FromValue_Bytes ==
    \E v \in HeldValues : Convert("FromValue for Bytes", v, FromValue_Bytes(v, heap))
Call_UnsafeFromValue_RefBytes ==
    \E v \in HeldValues : Convert("UnsafeFromValue for &Bytes", v, UnsafeFromValue_RefBytes(v, heap))
Call_UnsafeFromValue_MutBytes ==
    \E v \in HeldValues : Convert("UnsafeFromValue for &mut Bytes", v, UnsafeFromValue_MutBytes(v, heap))
Call_UnsafeFromValue_Slice ==
    \E v \in HeldValues : Convert("UnsafeFromValue for &[u8]", v, UnsafeFromValue_Slice(v, heap))
Call_FromValue_String ==
    \E v \in HeldValues : Convert("FromValue for String", v, FromValue_String(v, heap))
Call_FromValue_BoxStr ==
    \E v \in HeldValues : Convert("FromValue for Box<str>", v, FromValue_BoxStr(v, heap))
Call_UnsafeFromValue_Str ==
    \E v \in HeldValues : Convert("UnsafeFromValue for &str", v, UnsafeFromValue_Str(v, heap))
Call_UnsafeFromValue_MutStr ==
    \E v \in HeldValues : Convert("UnsafeFromValue for &mut str", v, UnsafeFromValue_MutStr(v, heap))
Call_UnsafeFromValue_RefString ==
    \E v \in HeldValues : Convert("UnsafeFromValue for &String", v, UnsafeFromValue_RefString(v, heap))
Call_UnsafeFromValue_MutString ==
    \E v \in HeldValues : Convert("UnsafeFromValue for &mut String", v, UnsafeFromValue_MutString(v, heap))
Call_FromValue_Option ==
    \E v \in HeldValues : Convert("FromValue for Option<T>", v, FromValue_Option(v, heap))
Call_UnsafeFromValue_RefOption ==
    \E v \in HeldValues : Convert("UnsafeFromValue for &Option<Value>", v, UnsafeFromValue_RefOption(v, heap))
Call_UnsafeFromValue_MutOption ==
    \E v \in HeldValues : Convert("UnsafeFromValue for &mut Option<Value>", v, UnsafeFromValue_MutOption(v, heap))
Call_FromValue_Range ==
    \E v \in HeldValues : Convert("FromValue for Range", v, FromValue_Range(v, heap))
Call_UnsafeFromValue_RefRange ==
    \E v \in HeldValues : Convert("UnsafeFromValue for &Range", v, UnsafeFromValue_RefRange(v, heap))
Call_UnsafeFromValue_MutRange ==
    \E v \in HeldValues : Convert("UnsafeFromValue for &mut Range", v, UnsafeFromValue_MutRange(v, heap))

NoLast ==
    [op |-> "none", arg |-> ValUnit, ok |-> TRUE, err |-> "none", guard |-> "none",
     ptr |-> "none", out |-> NoPayload, pre |-> FreeCell, preg |-> NoLoans,
     from |-> NoPayload]

HeapIdle ==
    /\ heap = [c \in Cells |-> FreeCell]
    /\ held = [c \in Cells |-> 0]
    /\ guards = [c \in Cells |-> NoLoans]
    /\ origin = [c \in Cells |-> NoPayload]
    /\ last = NoLast

NoVariant ==
    [rtti |-> [enum_hash |-> 0, hash |-> 0], shape |-> "Empty", data |-> <<>>]

RangeIdle ==
    /\ rng = ToValue_OpsRangeFull
    /\ iter = NoIter
    /\ status = "new"
    /\ yielded = <<>>
    /\ build = "debug"

VariantIdle ==
    /\ va = NoVariant
    /\ vb = NoVariant
    /\ vres = [op |-> "none",
               res |-> [kind |-> "Ok", bool |-> FALSE, ord |-> "none", msg |-> ""]]

\* No Hash constructor called yet.
HashOps == {"of_type", "function", "tuple_match"}
NoHash == [done |-> FALSE, input |-> <<>>, hash |-> 0]
HashIdle ==
    /\ hpath = <<>>
    /\ hres = [op \in HashOps |-> NoHash]

\* No Args call made yet.
NoArgs == [op |-> "none", ok |-> FALSE, vec |-> <<>>, pre |-> <<>>, count |-> -1]
ArgsIdle ==
    /\ atuple = <<>>
    /\ astack = <<>>
    /\ ares = NoArgs

\* The heap after construction: no value yet.
Init == HeapIdle /\ RangeIdle /\ VariantIdle /\ HashIdle /\ ArgsIdle

Next ==
    \/ Call_ToValue_BoxStr
    \/ Call_Value_from_Bytes
    \/ Call_ToValue_Option
    \/ Call_ToValue_Range
    \/ CloneValue
    \/ DropValue
    \/ DropGuard
    \/ Call_FromValue_Bytes
    \/ Call_UnsafeFromValue_RefBytes
    \/ Call_UnsafeFromValue_MutBytes
    \/ Call_UnsafeFromValue_Slice
    \/ Call_FromValue_String
    \/ Call_FromValue_BoxStr
    \/ Call_UnsafeFromValue_Str
    \/ Call_UnsafeFromValue_MutStr
    \/ Call_UnsafeFromValue_RefString
    \/ Call_UnsafeFromValue_MutString
    \/ Call_FromValue_Option
    \/ Call_UnsafeFromValue_RefOption
    \/ Call_UnsafeFromValue_MutOption
    \/ Call_FromValue_Range
    \/ Call_UnsafeFromValue_RefRange
    \/ Call_UnsafeFromValue_MutRange

Spec == Init /\ [][Next]_vars

\* ------------------------------------------------------ borrow discipline
\* Pointers of one mutability outstanding in a bag of (guard, pointer) pairs.
Ptrs(bag, p) ==
    bag[<<"RawOwnedRef", p>>] + bag[<<"RawOwnedMut", p>>]
        + bag[<<"RawRef", p>>] + bag[<<"RawMut", p>>]
\* Guards of one kind of access outstanding in a bag.
SharedGuards(bag) ==
    bag[<<"RawOwnedRef", "const">>] + bag[<<"RawOwnedRef", "mut">>]
        + bag[<<"RawRef", "const">>] + bag[<<"RawRef", "mut">>]
ExclusiveGuards(bag) ==
    bag[<<"RawOwnedMut", "const">>] + bag[<<"RawOwnedMut", "mut">>]
        + bag[<<"RawMut", "const">>] + bag[<<"RawMut", "mut">>]

SharedLoanOps ==
    {"UnsafeFromValue for &Bytes", "UnsafeFromValue for &[u8]",
     "UnsafeFromValue for &String", "UnsafeFromValue for &str",
     "UnsafeFromValue for &Option<Value>"}
MutLoanOps ==
    {"UnsafeFromValue for &mut Bytes", "UnsafeFromValue for &mut str",
     "UnsafeFromValue for &mut String", "UnsafeFromValue for &mut Option<Value>",
     "UnsafeFromValue for &mut Range"}
LoanOps == SharedLoanOps \cup MutLoanOps \cup {"UnsafeFromValue for &Range"}

\* The type of cell each loan accepts.
LoanTag(op) ==
    IF op \in {"UnsafeFromValue for &Bytes", "UnsafeFromValue for &[u8]",
               "UnsafeFromValue for &mut Bytes"} THEN "Bytes"
    ELSE IF op \in {"UnsafeFromValue for &Option<Value>",
                    "UnsafeFromValue for &mut Option<Value>"} THEN "Option"
    ELSE IF op \in {"UnsafeFromValue for &Range", "UnsafeFromValue for &mut Range"}
    THEN "Range"
    ELSE "String"

\* C1: in every reachable state, every cell has exclusive in {0, 1} and
\* (exclusive = 0 or shared = 0); of the pointers handed out with the guards,
\* at most one is mutable and none is shared beside a mutable one.
C1_BorrowExclusivity ==
    \A c \in Cells :
        /\ heap[c].exclusive \in {0, 1}
        /\ heap[c].exclusive = 0 \/ heap[c].shared = 0
        /\ Ptrs(guards[c], "mut") <= 1
        /\ Ptrs(guards[c], "mut") = 0 \/ Ptrs(guards[c], "const") = 0

\* C1 witness: a mutable acquisition has just failed on a cell with two shared
\* loans outstanding.
C1_Witness ==
    /\ last.op = "UnsafeFromValue for &mut Bytes"
    /\ last.err = "BorrowError"
    /\ heap[last.arg.cell].shared = 2
    /\ Ptrs(guards[last.arg.cell], "const") = 2

\* C2: on a String value, `&mut String` fails with a borrow error while the
\* guard of an earlier `&mut String` is held; with no guard held, `&String`
\* and `&str` succeed.
C2_MutStringOverlap ==
    /\ (/\ last.op = "UnsafeFromValue for &mut String"
        /\ last.arg.tag = "String"
        /\ Ptrs(last.preg, "mut") > 0)
       => (~last.ok /\ last.err = "BorrowError")
    /\ (/\ last.op \in {"UnsafeFromValue for &String", "UnsafeFromValue for &str"}
        /\ last.arg.tag = "String"
        /\ last.preg = NoLoans)
       => (last.ok /\ last.guard = "RawOwnedRef")

\* C2 witness: the second `&mut String` has failed while the first guard is
\* still held.
C2_Witness ==
    /\ last.op = "UnsafeFromValue for &mut String"
    /\ last.err = "BorrowError"
    /\ guards[last.arg.cell][<<"RawOwnedMut", "mut">>] = 1

\* C3: a shared loan succeeds whatever the number of shared loans already
\* outstanding; a mutable loan attempted while a shared loan is outstanding
\* fails with a borrow error; a failed loan leaves (shared, exclusive) as
\* they were.
C3_SharedCoexistMutFails ==
    /\ (/\ last.op \in SharedLoanOps
        /\ last.arg.tag = LoanTag(last.op)
        /\ ~last.pre.taken
        /\ last.pre.exclusive = 0)
       => (/\ last.ok
           /\ heap[last.arg.cell].shared = last.pre.shared + 1)
    /\ (/\ last.op \in MutLoanOps
        /\ last.arg.tag = LoanTag(last.op)
        /\ last.pre.shared > 0)
       => (~last.ok /\ last.err = "BorrowError")
    /\ (/\ last.op \in LoanOps
        /\ last.arg.cell \in Cells
        /\ ~last.ok)
       => (/\ heap[last.arg.cell].shared = last.pre.shared
           /\ heap[last.arg.cell].exclusive = last.pre.exclusive)

\* C3 witness: a mutable loan has failed on an Option cell with two shared
\* loans outstanding together.
C3_Witness ==
    /\ last.op = "UnsafeFromValue for &mut Option<Value>"
    /\ last.err = "BorrowError"
    /\ last.pre.shared = 2
    /\ heap[last.arg.cell].shared = 2

\* C4: each cell counts exactly the borrows of the guards outstanding on it,
\* a successful loan adds exactly one, and with no guard outstanding the
\* counters are zero and a mutable loan succeeds.
C4_GuardsMatchBorrows ==
    /\ \A c \in Cells :
        /\ heap[c].shared = SharedGuards(guards[c])
        /\ heap[c].exclusive = ExclusiveGuards(guards[c])
    /\ (last.op \in LoanOps /\ last.ok /\ last.arg.cell \in Cells)
       => (heap[last.arg.cell].shared + heap[last.arg.cell].exclusive
               = last.pre.shared + last.pre.exclusive + 1)
    /\ (/\ last.op \in MutLoanOps
        /\ last.arg.tag = LoanTag(last.op)
        /\ ~last.pre.taken
        /\ last.preg = NoLoans)
       => last.ok

\* C4 witness: the last guard of a cell has just been dropped, the counters
\* are back to zero and the host still holds a handle.
C4_Witness ==
    /\ last.op = "drop(guard)"
    /\ last.pre.shared + last.pre.exclusive = 1
    /\ heap[last.arg.cell].shared = 0
    /\ heap[last.arg.cell].exclusive = 0
    /\ guards[last.arg.cell] = NoLoans
    /\ held[last.arg.cell] > 0

\* ------------------------------------------------- runtime/variant.rs
EnumHashes == {1, 2}
Hashes == {1, 2}
Elems == {1, 2}
Payloads == UNION {[1..n -> Elems] : n \in 0..MaxLen}
Rttis == [enum_hash : EnumHashes, hash : Hashes]

\* Variant::unit / Variant::tuple / Variant::struct_: no check against rtti.
Variant_unit(rtti) == [rtti |-> rtti, shape |-> "Empty", data |-> <<>>]
Variant_tuple(rtti, tuple) == [rtti |-> rtti, shape |-> "Tuple", data |-> tuple]
Variant_struct(rtti, data) == [rtti |-> rtti, shape |-> "Struct", data |-> data]

Variants ==
    {Variant_unit(r) : r \in Rttis}
        \cup {Variant_tuple(r, t) : r \in Rttis, t \in Payloads}
        \cup {Variant_struct(r, d) : r \in Rttis, d \in Payloads}

\* VmResult of a comparison.
VmOkBool(b) == [kind |-> "Ok", bool |-> b, ord |-> "none", msg |-> ""]
VmOkOrd(o) == [kind |-> "Ok", bool |-> FALSE, ord |-> o, msg |-> ""]
VmPanic(msg) == [kind |-> "Panic", bool |-> FALSE, ord |-> "none", msg |-> msg]
\* A failed debug_assert_eq! aborts the comparison with a native panic.
DebugAbort == [kind |-> "Abort", bool |-> FALSE, ord |-> "none",
               msg |-> "comparison only makes sense if enum hashes match"]

\* Ordering of two integers (u64 hashes, i64 elements).
Cmp(x, y) == IF x < y THEN "Less" ELSE IF x > y THEN "Greater" ELSE "Equal"

\* Vec::eq_with over integer elements: lengths first, then element by element.
RECURSIVE EqFrom(_, _, _)
EqFrom(a, b, i) ==
    IF i > Len(a) THEN TRUE
    ELSE IF a[i] # b[i] THEN FALSE
    ELSE EqFrom(a, b, i + 1)
Vec_eq_with(a, b) ==
    IF Len(a) # Len(b) THEN VmOkBool(FALSE) ELSE VmOkBool(EqFrom(a, b, 1))

\* Vec::cmp_with / Vec::partial_cmp_with over integer elements: the first
\* unequal pair decides, then the lengths.
RECURSIVE CmpFrom(_, _, _)
CmpFrom(a, b, i) ==
    IF i > Len(a) THEN (IF i > Len(b) THEN "Equal" ELSE "Less")
    ELSE IF i > Len(b) THEN "Greater"
    ELSE IF Cmp(a[i], b[i]) # "Equal" THEN Cmp(a[i], b[i])
    ELSE CmpFrom(a, b, i + 1)
Vec_cmp_with(a, b) == VmOkOrd(CmpFrom(a, b, 1))
Vec_partial_cmp_with(a, b) == VmOkOrd(CmpFrom(a, b, 1))

\* Mutant of partial_eq_with: the variant hashes are not compared.
Variant_partial_eq_with_NoHashCheck(a, b, debug) ==
    IF debug /\ a.rtti.enum_hash # b.rtti.enum_hash THEN DebugAbort
    ELSE IF a.shape = "Empty" /\ b.shape = "Empty" THEN VmOkBool(TRUE)
    ELSE IF a.shape = "Tuple" /\ b.shape = "Tuple" THEN Vec_eq_with(a.data, b.data)
    ELSE IF a.shape = "Struct" /\ b.shape = "Struct" THEN Vec_eq_with(a.data, b.data)
    ELSE VmPanic("data mismatch between variants")

\* Variant::partial_eq_with
Variant_partial_eq_with(a, b, debug) ==
    IF debug /\ a.rtti.enum_hash # b.rtti.enum_hash THEN DebugAbort
    ELSE IF a.rtti.hash # b.rtti.hash THEN VmOkBool(FALSE)
    ELSE IF a.shape = "Empty" /\ b.shape = "Empty" THEN VmOkBool(TRUE)
    ELSE IF a.shape = "Tuple" /\ b.shape = "Tuple" THEN Vec_eq_with(a.data, b.data)
    ELSE IF a.shape = "Struct" /\ b.shape = "Struct" THEN Vec_eq_with(a.data, b.data)
    ELSE VmPanic("data mismatch between variants")

\* Mutant of eq_with: payloads of different shapes compare unequal instead of
\* raising the VM panic.
Variant_eq_with_MismatchUnequal(a, b, debug) ==
    IF debug /\ a.rtti.enum_hash # b.rtti.enum_hash THEN DebugAbort
    ELSE IF a.rtti.hash # b.rtti.hash THEN VmOkBool(FALSE)
    ELSE IF a.shape = "Empty" /\ b.shape = "Empty" THEN VmOkBool(TRUE)
    ELSE IF a.shape = "Tuple" /\ b.shape = "Tuple" THEN Vec_eq_with(a.data, b.data)
    ELSE IF a.shape = "Struct" /\ b.shape = "Struct" THEN Vec_eq_with(a.data, b.data)
    ELSE VmOkBool(FALSE)

\* Variant::eq_with
Variant_eq_with(a, b, debug) ==
    IF debug /\ a.rtti.enum_hash # b.rtti.enum_hash THEN DebugAbort
    ELSE IF a.rtti.hash # b.rtti.hash THEN VmOkBool(FALSE)
    ELSE IF a.shape = "Empty" /\ b.shape = "Empty" THEN VmOkBool(TRUE)
    ELSE IF a.shape = "Tuple" /\ b.shape = "Tuple" THEN Vec_eq_with(a.data, b.data)
    ELSE IF a.shape = "Struct" /\ b.shape = "Struct" THEN Vec_eq_with(a.data, b.data)
    ELSE VmPanic("data mismatch between variants")

\* Variant::partial_cmp_with: Option<Ordering>, always Some here.
Variant_partial_cmp_with(a, b, debug) ==
    IF debug /\ a.rtti.enum_hash # b.rtti.enum_hash THEN DebugAbort
    ELSE IF Cmp(a.rtti.hash, b.rtti.hash) # "Equal"
    THEN VmOkOrd(Cmp(a.rtti.hash, b.rtti.hash))
    ELSE IF a.shape = "Empty" /\ b.shape = "Empty" THEN VmOkOrd("Equal")
    ELSE IF a.shape = "Tuple" /\ b.shape = "Tuple"
    THEN Vec_partial_cmp_with(a.data, b.data)
    ELSE IF a.shape = "Struct" /\ b.shape = "Struct"
    THEN Vec_partial_cmp_with(a.data, b.data)
    ELSE VmPanic("data mismatch between variants")

\* Mutant of cmp_with: the hashes are compared the wrong way round.
Variant_cmp_with_HashReversed(a, b, debug) ==
    IF debug /\ a.rtti.enum_hash # b.rtti.enum_hash THEN DebugAbort
    ELSE IF Cmp(b.rtti.hash, a.rtti.hash) # "Equal"
    THEN VmOkOrd(Cmp(b.rtti.hash, a.rtti.hash))
    ELSE IF a.shape = "Empty" /\ b.shape = "Empty" THEN VmOkOrd("Equal")
    ELSE IF a.shape = "Tuple" /\ b.shape = "Tuple" THEN Vec_cmp_with(a.data, b.data)
    ELSE IF a.shape = "Struct" /\ b.shape = "Struct" THEN Vec_cmp_with(a.data, b.data)
    ELSE VmPanic("data mismatch between variants")

\* Variant::cmp_with
Variant_cmp_with(a, b, debug) ==
    IF debug /\ a.rtti.enum_hash # b.rtti.enum_hash THEN DebugAbort
    ELSE IF Cmp(a.rtti.hash, b.rtti.hash) # "Equal"
    THEN VmOkOrd(Cmp(a.rtti.hash, b.rtti.hash))
    ELSE IF a.shape = "Empty" /\ b.shape = "Empty" THEN VmOkOrd("Equal")
    ELSE IF a.shape = "Tuple" /\ b.shape = "Tuple" THEN Vec_cmp_with(a.data, b.data)
    ELSE IF a.shape = "Struct" /\ b.shape = "Struct" THEN Vec_cmp_with(a.data, b.data)
    ELSE VmPanic("data mismatch between variants")

Compared(op, r) ==
    /\ vres' = [op |-> op, res |-> r]
    /\ UNCHANGED <<va, vb, build, heapvars, rng, iter, status, yielded, hashvars, argsvars>>

Call_partial_eq_with ==
    Compared("partial_eq_with", Variant_partial_eq_with(va, vb, build = "debug"))
Call_eq_with ==
    Compared("eq_with", Variant_eq_with(va, vb, build = "debug"))
Call_partial_cmp_with ==
    Compared("partial_cmp_with", Variant_partial_cmp_with(va, vb, build = "debug"))
Call_cmp_with ==
    Compared("cmp_with", Variant_cmp_with(va, vb, build = "debug"))

\* Two variants built by the constructors, in a debug or a release build.
InitVariant ==
    /\ HeapIdle
    /\ rng = ToValue_OpsRangeFull
    /\ iter = NoIter
    /\ status = "new"
    /\ yielded = <<>>
    /\ build \in {"debug", "release"}
    /\ va \in Variants
    /\ vb \in Variants
    /\ vres = [op |-> "none", res |-> VmOkBool(FALSE)]
    /\ HashIdle
    /\ ArgsIdle

NextVariant ==
    \/ Call_partial_eq_with
    \/ Call_eq_with
    \/ Call_partial_cmp_with
    \/ Call_cmp_with

SpecVariant == InitVariant /\ [][NextVariant]_vars

\* C5: for variants of one enum, partial_eq_with and eq_with return Ok(true)
\* exactly when the variant hashes are equal and the payloads have the same
\* shape, the same length and equal elements at every position.
PayloadsEqual(a, b) ==
    /\ a.shape = b.shape
    /\ Len(a.data) = Len(b.data)
    /\ \A i \in 1..Len(a.data) : a.data[i] = b.data[i]

C5_EqIffHashAndPayload ==
    (/\ vres.op \in {"partial_eq_with", "eq_with"}
     /\ va.rtti.enum_hash = vb.rtti.enum_hash)
    => ((vres.res.kind = "Ok" /\ vres.res.bool)
            <=> (va.rtti.hash = vb.rtti.hash /\ PayloadsEqual(va, vb)))

\* C5 witness: two tuple variants of the same hash with two equal elements
\* have compared equal.
C5_Witness ==
    /\ vres.op = "partial_eq_with"
    /\ vres.res = VmOkBool(TRUE)
    /\ va.shape = "Tuple"
    /\ Len(va.data) = 2
    /\ va.rtti = vb.rtti

\* C6: for variants of one enum, cmp_with and partial_cmp_with return the
\* ordering of the hashes when these differ, whatever the payloads, and the
\* lexicographic ordering of the payloads when the hashes are equal and the
\* payloads have the same shape.
LexOrd(x, y) ==
    LET n == IF Len(x) < Len(y) THEN Len(x) ELSE Len(y)
        d == {i \in 1..n : x[i] # y[i]}
    IN IF d # {}
       THEN LET k == CHOOSE i \in d : \A j \in d : i <= j IN Cmp(x[k], y[k])
       ELSE Cmp(Len(x), Len(y))

C6_CmpByHashThenPayload ==
    (/\ vres.op \in {"cmp_with", "partial_cmp_with"}
     /\ va.rtti.enum_hash = vb.rtti.enum_hash)
    => /\ (va.rtti.hash < vb.rtti.hash) => vres.res = VmOkOrd("Less")
       /\ (va.rtti.hash > vb.rtti.hash) => vres.res = VmOkOrd("Greater")
       /\ (va.rtti.hash = vb.rtti.hash /\ va.shape = vb.shape)
          => vres.res = VmOkOrd(LexOrd(va.data, vb.data))

\* C6 witness: cmp(B(1), B(2)) = Less.
C6_Witness ==
    /\ vres.op = "cmp_with"
    /\ va.rtti = vb.rtti
    /\ va.shape = "Tuple" /\ va.data = <<1>>
    /\ vb.shape = "Tuple" /\ vb.data = <<2>>
    /\ vres.res = VmOkOrd("Less")

\* The debug_assert_eq! on the enum hashes fired: the comparison was aborted
\* before it looked at the variant hashes or the payloads.
EnumAssertFired ==
    /\ build = "debug"
    /\ va.rtti.enum_hash # vb.rtti.enum_hash
    /\ vres.res = DebugAbort

\* C13: for two variants of equal hash whose payload shapes differ, each of
\* the four comparisons returns the VM panic "data mismatch between variants"
\* and never Ok (the one other outcome is the debug assertion on the enum
\* hashes, which fires before the payloads are looked at); when the hashes
\* differ no comparison returns a VM panic, whatever the shapes.
C13_ShapeMismatchPanics ==
    (vres.op \in {"partial_eq_with", "eq_with", "partial_cmp_with", "cmp_with"})
    => /\ (va.rtti.hash = vb.rtti.hash /\ va.shape # vb.shape)
            => /\ vres.res.kind # "Ok"
               /\ \/ vres.res = VmPanic("data mismatch between variants")
                  \/ EnumAssertFired
       /\ (va.rtti.hash # vb.rtti.hash) => vres.res.kind # "Panic"
       /\ (va.rtti.hash # vb.rtti.hash /\ ~EnumAssertFired)
            => vres.res.kind = "Ok"

\* C13 witness: eq_with on a unit variant and a tuple variant of the same
\* rtti has returned the VM panic.
C13_Witness ==
    /\ vres.op = "eq_with"
    /\ va.rtti = vb.rtti
    /\ va.shape = "Empty"
    /\ vb.shape = "Tuple"
    /\ vres.res = VmPanic("data mismatch between variants")

\* ------------------------------------------------------ range iteration
\* next() of the host range an iterator wraps.  A start.. range that steps
\* past the largest integer panics with overflow checks and wraps without.
IterSome(it, x) == [kind |-> "Some", item |-> x, iter |-> it]
IterNone(it) == [kind |-> "None", item |-> 0, iter |-> it]
IterPanic(it) == [kind |-> "Panic", item |-> 0, iter |-> it]

Iterator_next(it, debug) ==
    IF it.kind = "Range"
    THEN IF it.start < it.end
         THEN IterSome([it EXCEPT !.start = @ + 1], it.start)
         ELSE IterNone(it)
    ELSE IF it.kind = "RangeInclusive"
    THEN IF it.exhausted \/ ~(it.start <= it.end) THEN IterNone(it)
         ELSE IF it.start < it.end
         THEN IterSome([it EXCEPT !.start = @ + 1], it.start)
         ELSE IterSome([it EXCEPT !.exhausted = TRUE], it.start)
    ELSE IF it.start = IntMax
         THEN IF debug THEN IterPanic(it)
              ELSE IterSome([it EXCEPT !.start = IntMin], it.start)
         ELSE IterSome([it EXCEPT !.start = @ + 1], it.start)

\* Every endpoint a Range can hold here: none, an integer, a float.
Endpoints == {OptNone, OptSome(ValFloat)} \cup {OptSome(ValInteger(i)) : i \in Ints}
\* Ranges converted from host ranges and ranges built with Range::new.
HostRanges ==
    {ToValue_OpsRangeFull}
        \cup {ToValue_OpsRange(s, e) : s \in Ints, e \in Ints}
        \cup {ToValue_OpsRangeInclusive(s, e) : s \in Ints, e \in Ints}
        \cup {ToValue_OpsRangeFrom(s) : s \in Ints}
        \cup {ToValue_OpsRangeTo(e) : e \in Ints}
        \cup {ToValue_OpsRangeToInclusive(e) : e \in Ints}
Ranges ==
    HostRanges
        \cup {RangeNew(s, e, l) : s \in Endpoints, e \in Endpoints,
                                  l \in {"HalfOpen", "Closed"}}

\* Calls of next() the model follows on one iterator.
MaxYield == 2 ^ IntBits + 2

Call_into_iterator ==
    /\ status = "new"
    /\ LET r == Range_into_iterator(rng) IN
        /\ iter' = r.iter
        /\ status' = IF r.ok THEN "iterating" ELSE r.panic
    /\ UNCHANGED <<rng, yielded, build, heapvars, variantvars, hashvars, argsvars>>

Call_next ==
    /\ status = "iterating"
    /\ Len(yielded) < MaxYield
    /\ LET n == Iterator_next(iter, build = "debug") IN
        /\ iter' = n.iter
        /\ yielded' = IF n.kind = "Some" THEN Append(yielded, n.item) ELSE yielded
        /\ status' = IF n.kind = "Some" THEN "iterating"
                     ELSE IF n.kind = "None" THEN "ended" ELSE "panic"
    /\ UNCHANGED <<rng, build, heapvars, variantvars, hashvars, argsvars>>

InitRange ==
    /\ HeapIdle
    /\ VariantIdle
    /\ HashIdle
    /\ ArgsIdle
    /\ rng \in Ranges
    /\ iter = NoIter
    /\ status = "new"
    /\ yielded = <<>>
    /\ build \in {"debug", "release"}

NextRange ==
    \/ Call_into_iterator
    \/ Call_next

SpecRange == InitRange /\ [][NextRange]_vars

\* The shapes of (limits, start, end).
IntInt(r, limits) == r.limits = limits /\ IsInteger(r.start) /\ IsInteger(r.end)
IntNone(r, limits) == r.limits = limits /\ IsInteger(r.start) /\ ~r.end.some

\* C7 as stated: into_iterator succeeds exactly for (HalfOpen, int, int),
\* (Closed, int, int) and (HalfOpen, int, None), and returns
\* Panic("not an iterator") for every other shape.
C7_ExactlyThreeShapes ==
    (status # "new")
    => /\ (iter.kind # "none")
            <=> (\/ IntInt(rng, "HalfOpen") \/ IntInt(rng, "Closed")
                 \/ IntNone(rng, "HalfOpen"))
       /\ (iter.kind = "none") => status = "not an iterator"

\* C7 amended: into_iterator succeeds exactly for (HalfOpen, int, int),
\* (Closed, int, int) and (HalfOpen or Closed, int, None), and returns
\* Panic("not an iterator") for every other shape.
C7_IntStartAnyLimitsNoEnd ==
    (status # "new")
    => /\ (iter.kind # "none")
            <=> (\/ IntInt(rng, "HalfOpen") \/ IntInt(rng, "Closed")
                 \/ IntNone(rng, "HalfOpen") \/ IntNone(rng, "Closed"))
       /\ (iter.kind = "none") => status = "not an iterator"
       /\ IntInt(rng, "HalfOpen") => iter.kind = "Range"
       /\ IntInt(rng, "Closed") => iter.kind = "RangeInclusive"
       /\ (IntNone(rng, "HalfOpen") \/ IntNone(rng, "Closed"))
          => iter.kind = "RangeFrom"

\* C7 witness: a Closed range with an integer start and no end has been
\* turned into an open-ended iterator.
C7_Witness ==
    /\ IntNone(rng, "Closed")
    /\ iter.kind = "RangeFrom"
    /\ status = "iterating"

\* C8: the items yielded are s, s+1, ... in order; s..e yields e - s items
\* (none when s >= e) and then ends, s..=e yields e - s + 1 items (none when
\* s > e) and then ends, also when e is the largest integer, neither
\* panics; s.. never ends.
Count(r) ==
    LET n == IF r.limits = "Closed" THEN r.end.value.n - r.start.value.n + 1
             ELSE r.end.value.n - r.start.value.n
    IN IF n > 0 THEN n ELSE 0

C8_RangeYields ==
    (iter.kind # "none")
    => /\ \A i \in 1..Len(yielded) :
            (rng.start.value.n + i - 1 <= IntMax)
                => yielded[i] = rng.start.value.n + i - 1
       /\ rng.end.some
            => /\ Len(yielded) <= Count(rng)
               /\ status = "ended" => Len(yielded) = Count(rng)
               /\ status # "panic"
       /\ ~rng.end.some => status # "ended"

\* C8 witness: a closed range ending at the largest integer has yielded it
\* as its last item and ended.
C8_Witness ==
    /\ status = "ended"
    /\ IntInt(rng, "Closed")
    /\ rng.end.value.n = IntMax
    /\ Len(yielded) >= 2
    /\ yielded[Len(yielded)] = IntMax

\* ---------------------------------------------------- owning conversions
CloneOps == {"FromValue for String", "FromValue for Box<str>", "FromValue for Bytes"}
TakeOps == {"FromValue for Range", "FromValue for Option<T>"}
OwningOps == CloneOps \cup TakeOps

\* The cell is as it was before the conversion, the consumed handle aside.
CellKept(c) ==
    /\ heap[c].data = last.pre.data
    /\ ~heap[c].taken
    /\ heap[c].shared = last.pre.shared
    /\ heap[c].exclusive = last.pre.exclusive

\* C9 as stated: after any owning conversion returns Ok, a cell with other
\* handles still holds its payload and no borrow from the conversion.
C9_OwningConversionsKeepCell ==
    (/\ last.op \in OwningOps
     /\ last.ok
     /\ last.arg.cell \in Cells
     /\ last.pre.rc > 1)
    => CellKept(last.arg.cell)

\* C9 amended: String, Box<str> and Bytes copy the payload out and leave the
\* cell as it was; Range and Option<T> succeed only on a cell free of borrows,
\* return its payload and leave the cell taken, and every later loan or
\* conversion of a taken cell fails.
C9_CloneKeepsTakeEmpties ==
    /\ (/\ last.op \in CloneOps
        /\ last.ok
        /\ last.arg.cell \in Cells)
       => /\ last.out = last.pre.data
          /\ last.pre.rc > 1
                => (CellKept(last.arg.cell)
                        /\ heap[last.arg.cell].rc = last.pre.rc - 1)
    /\ (last.op \in TakeOps /\ last.ok)
       => /\ CanExclusive(last.pre)
          /\ last.op = "FromValue for Range" => last.out = last.pre.data
          /\ last.pre.rc > 1
                => (/\ heap[last.arg.cell].taken
                    /\ heap[last.arg.cell].data = NoPayload
                    /\ heap[last.arg.cell].shared = 0
                    /\ heap[last.arg.cell].exclusive = 0)
    /\ (/\ last.op \in OwningOps \cup LoanOps
        /\ last.arg.cell \in Cells
        /\ last.pre.taken)
       => ~last.ok

\* C9 witness: Range::from_value has returned Ok on a value with another
\* handle, and the cell is left taken.
C9_Witness ==
    /\ last.op = "FromValue for Range"
    /\ last.ok
    /\ last.pre.rc > 1
    /\ held[last.arg.cell] > 0
    /\ heap[last.arg.cell].taken

\* C10: Option::<String>::from_value of a value built by to_value from x and
\* free of borrows returns Ok(x); to_value builds a fresh Option cell for Some
\* and for None.
C10_OptionRoundTrip ==
    /\ (/\ last.op = "FromValue for Option<T>"
        /\ last.arg.tag = "Option"
        /\ CanExclusive(last.pre))
       => (last.ok /\ last.out = last.from)
    /\ (last.op = "ToValue for Option<T>")
       => /\ last.arg.tag = "Option"
          /\ last.pre.rc = 0
          /\ heap[last.arg.cell].tag = "Option"
          /\ heap[last.arg.cell].data.opt.some = last.out.opt.some
          /\ heap[last.arg.cell].rc = 1
          /\ heap[last.arg.cell].shared = 0
          /\ heap[last.arg.cell].exclusive = 0
          /\ ~heap[last.arg.cell].taken
          /\ held[last.arg.cell] = 1

\* C10 witness: Some("b") has come back from a round trip.
C10_Witness ==
    /\ last.op = "FromValue for Option<T>"
    /\ last.ok
    /\ last.from = OptionPayload(HostSome("b"))
    /\ last.out = OptionPayload(HostSome("b"))

\* ------------------------------------------------------- runestick hash.rs
\* Longest path handed to a Hash constructor.
MaxPath == 2

\* Width in bits of the model's Hash (u64 scaled down).
HashBits == 8

\* Hash::SEP, Hash::TYPE, Hash::INSTANCE_FUNCTION, Hash::TUPLE_MATCH
SEP == 127
TYPE == 1
INSTANCE_FUNCTION == 3
TUPLE_MATCH == 5

\* Path segments as the bytes of their text: "", "a", "b", "ab".
Segments == {<<>>, <<97>>, <<98>>, <<97, 98>>}
Paths == UNION {[1..n -> Segments] : n \in 0..MaxPath}

\* <usize as Hash>::hash: one machine word is written to the hasher.
Hash_usize(hasher, n) == Append(hasher, <<"usize", n>>)

\* <str as Hash>::hash: the bytes of the text, then the terminator 0xff.
RECURSIVE WriteBytes(_, _, _)
WriteBytes(hasher, bytes, i) ==
    IF i > Len(bytes) THEN hasher
    ELSE WriteBytes(Append(hasher, <<"u8", bytes[i]>>), bytes, i + 1)
Hash_str(hasher, text) == Append(WriteBytes(hasher, text, 1), <<"u8", 255>>)

\* Hasher::finish: a digest of everything written, in order.
RECURSIVE Digest(_, _, _)
Digest(hasher, i, acc) ==
    IF i > Len(hasher) THEN acc
    ELSE Digest(hasher, i + 1, (acc * 31 + hasher[i][2] + 7) % (2 ^ HashBits))
Hasher_finish(hasher) == Digest(hasher, 1, 0)

\* Hash::path: the kind, then every part followed by the separator.
RECURSIVE PathParts(_, _, _)
PathParts(hasher, path, i) ==
    IF i > Len(path) THEN hasher
    ELSE PathParts(Hash_usize(Hash_str(hasher, path[i]), SEP), path, i + 1)
Hash_path(kind, path) ==
    LET hasher == PathParts(Hash_usize(<<>>, kind), path, 1) IN
    [done |-> TRUE, input |-> hasher, hash |-> Hasher_finish(hasher)]

\* Hash::of_type
Hash_of_type(path) == Hash_path(TYPE, path)

\* Hash::tuple_match
Hash_tuple_match(path) == Hash_path(TUPLE_MATCH, path)

\* Mutant of Hash::function: functions get a keyspace of their own.
Hash_function_OwnKeyspace(path) == Hash_path(INSTANCE_FUNCTION, path)

\* Hash::function
Hash_function(path) == Hash_path(TYPE, path)

Hashed(op, r) ==
    /\ hres' = [hres EXCEPT ![op] = r]
    /\ UNCHANGED <<hpath, heapvars, rangevars, variantvars, argsvars>>

Call_of_type == Hashed("of_type", Hash_of_type(hpath))
Call_tuple_match == Hashed("tuple_match", Hash_tuple_match(hpath))
Call_function == Hashed("function", Hash_function(hpath))

InitHash ==
    /\ HeapIdle
    /\ RangeIdle
    /\ VariantIdle
    /\ ArgsIdle
    /\ hpath \in Paths
    /\ hres = [op \in HashOps |-> NoHash]

NextHash ==
    \/ Call_of_type
    \/ Call_tuple_match
    \/ Call_function

SpecHash == InitHash /\ [][NextHash]_vars

\* What a constructor of the given kind is to feed the hasher for the path:
\* the kind word, then per segment its bytes, 0xff and the separator word.
SegmentInput(seg) ==
    [i \in 1..(Len(seg) + 2) |->
        IF i <= Len(seg) THEN <<"u8", seg[i]>>
        ELSE IF i = Len(seg) + 1 THEN <<"u8", 255>>
        ELSE <<"usize", 127>>]
RECURSIVE Concat(_, _)
Concat(path, i) ==
    IF i > Len(path) THEN <<>> ELSE SegmentInput(path[i]) \o Concat(path, i + 1)
ExpectedInput(kind, path) == <<<<"usize", kind>>>> \o Concat(path, 1)

\* C11: of_type and function of one path feed the hasher the same input, the
\* TYPE tag then each segment followed by the separator, and return the same
\* Hash; tuple_match feeds the TUPLE_MATCH tag in place of TYPE, so its
\* hasher input differs from that of of_type for the same path.
C11_TypeEqualsFunction ==
    /\ (hres["of_type"].done /\ hres["function"].done)
        => /\ hres["of_type"].input = ExpectedInput(1, hpath)
           /\ hres["function"].input = ExpectedInput(1, hpath)
           /\ hres["of_type"].hash = hres["function"].hash
    /\ hres["tuple_match"].done
        => hres["tuple_match"].input = ExpectedInput(5, hpath)
    /\ (hres["of_type"].done /\ hres["tuple_match"].done)
        => hres["of_type"].input # hres["tuple_match"].input

\* C11 witness: the three constructors have hashed one two-segment path.
C11_Witness ==
    /\ Len(hpath) = 2
    /\ hpath[1] # hpath[2]
    /\ \A op \in HashOps : hres[op].done
    /\ hres["of_type"].hash = hres["function"].hash

\* ------------------------------------------------------- runestick args.rs
\* Largest tuple arity the Args impls are generated for.
MaxArity == 3

\* Host arguments: an i64, a unit, and a datum whose to_value fails.
HostInt(n) == [kind |-> "i64", n |-> n]
HostUnit == [kind |-> "unit", n |-> 0]
HostBad == [kind |-> "bad", n |-> 0]
HostArgs == {HostInt(1), HostInt(2), HostUnit, HostBad}
HostTuples == UNION {[1..n -> HostArgs] : n \in 0..MaxArity}

\* ToValue of one argument.
ToValue_Arg(x) ==
    IF x.kind = "i64" THEN [ok |-> TRUE, value |-> ValInteger(x.n)]
    ELSE IF x.kind = "unit" THEN [ok |-> TRUE, value |-> ValUnit]
    ELSE [ok |-> FALSE, value |-> ValUnit]

\* Stack::push
Stack_push(stack, value) == Append(stack, value)

\* repeat_macro!: the list {type, value, count} the impl macro is applied to,
\* highest count first.
RepeatMacro == [i \in 1..MaxArity |-> [slot |-> i, count |-> MaxArity - i + 1]]

\* impl_into_args!: one impl for the whole list, counted by its head, then
\* the impls for the tail; the empty list gives the impl for () with count 0.
RECURSIVE Impl_into_args(_)
Impl_into_args(list) ==
    IF list = <<>> THEN {[arity |-> 0, count |-> 0]}
    ELSE {[arity |-> Len(list), count |-> list[1].count]}
             \cup Impl_into_args(Tail(list))

\* The impl of Args for the tuples of one arity.
ArgsImpl(arity) == CHOOSE impl \in Impl_into_args(RepeatMacro) : impl.arity = arity

\* Mutant of Args::into_stack: the arguments are pushed last first.
RECURSIVE PushFromLast(_, _, _)
PushFromLast(self, stack, i) ==
    IF i < 1 THEN [ok |-> TRUE, stack |-> stack]
    ELSE LET v == ToValue_Arg(self[i]) IN
         IF ~v.ok THEN [ok |-> FALSE, stack |-> stack]
         ELSE PushFromLast(self, Stack_push(stack, v.value), i - 1)
Args_into_stack_LastFirst(self, stack) == PushFromLast(self, stack, Len(self))

\* Args::into_stack: each argument is converted and pushed in turn; a failed
\* conversion returns the error with the earlier arguments already pushed.
RECURSIVE PushFrom(_, _, _)
PushFrom(self, stack, i) ==
    IF i > Len(self) THEN [ok |-> TRUE, stack |-> stack]
    ELSE LET v == ToValue_Arg(self[i]) IN
         IF ~v.ok THEN [ok |-> FALSE, stack |-> stack]
         ELSE PushFrom(self, Stack_push(stack, v.value), i + 1)
Args_into_stack(self, stack) == PushFrom(self, stack, 1)

\* Args::into_vec: every argument is converted in turn, then the vector is
\* built from the values.
RECURSIVE ConvertFrom(_, _, _)
ConvertFrom(self, vec, i) ==
    IF i > Len(self) THEN [ok |-> TRUE, vec |-> vec]
    ELSE LET v == ToValue_Arg(self[i]) IN
         IF ~v.ok THEN [ok |-> FALSE, vec |-> <<>>]
         ELSE ConvertFrom(self, Append(vec, v.value), i + 1)
Args_into_vec(self) == ConvertFrom(self, <<>>, 1)

\* Args::count
Args_count(arity) == ArgsImpl(arity).count

\* into_stack and into_vec take the tuple by value: one of them, once.
Call_into_stack ==
    /\ ares.op = "none"
    /\ LET r == Args_into_stack(atuple, astack) IN
        /\ astack' = r.stack
        /\ ares' = [ares EXCEPT !.op = "into_stack", !.ok = r.ok, !.pre = astack]
    /\ UNCHANGED <<atuple, heapvars, rangevars, variantvars, hashvars>>

Call_into_vec ==
    /\ ares.op = "none"
    /\ LET r == Args_into_vec(atuple) IN
        ares' = [ares EXCEPT !.op = "into_vec", !.ok = r.ok, !.vec = r.vec,
                             !.pre = astack]
    /\ UNCHANGED <<atuple, astack, heapvars, rangevars, variantvars, hashvars>>

Call_count ==
    /\ ares' = [ares EXCEPT !.count = Args_count(Len(atuple))]
    /\ UNCHANGED <<atuple, astack, heapvars, rangevars, variantvars, hashvars>>

InitArgs ==
    /\ HeapIdle
    /\ RangeIdle
    /\ VariantIdle
    /\ HashIdle
    /\ atuple \in HostTuples
    /\ astack \in {<<>>, <<ValInteger(0)>>}
    /\ ares = NoArgs

NextArgs ==
    \/ Call_into_stack
    \/ Call_into_vec
    \/ Call_count

SpecArgs == InitArgs /\ [][NextArgs]_vars

\* The Value an argument is to become.
ExpectedValue(x) == IF x.kind = "i64" THEN ValInteger(x.n) ELSE ValUnit
AllConvert(self) == \A i \in 1..Len(self) : self[i].kind # "bad"

\* C12: when every conversion succeeds, into_stack leaves what was on the
\* stack in place and pushes one value per argument above it, argument 0
\* first and the last argument on top; into_vec returns the same values in
\* the same order; count() is the number of elements of the tuple.
C12_ArgsInPositionalOrder ==
    /\ (ares.op = "into_stack" /\ AllConvert(atuple))
        => /\ ares.ok
           /\ Len(astack) = Len(ares.pre) + Len(atuple)
           /\ SubSeq(astack, 1, Len(ares.pre)) = ares.pre
           /\ \A i \in 1..Len(atuple) :
                astack[Len(ares.pre) + i] = ExpectedValue(atuple[i])
    /\ (ares.op = "into_vec" /\ AllConvert(atuple))
        => /\ ares.ok
           /\ astack = ares.pre
           /\ Len(ares.vec) = Len(atuple)
           /\ \A i \in 1..Len(atuple) : ares.vec[i] = ExpectedValue(atuple[i])
    /\ (ares.count # -1) => ares.count = Len(atuple)

\* C12 witness: a tuple of at least two different arguments has been pushed
\* onto a stack that was not empty, and its impl's count() asked.
C12_Witness ==
    /\ ares.op = "into_stack"
    /\ ares.ok
    /\ ares.pre # <<>>
    /\ Len(atuple) >= 2
    /\ atuple[1] # atuple[Len(atuple)]
    /\ astack[Len(astack)] = ExpectedValue(atuple[Len(atuple)])
    /\ ares.count = Len(atuple)

\* ------------------------------------- string conversions of any Value
\* Values that live on the stack: a static string and an integer.
InlineValues == {ValStaticString("a"), ValInteger(1)}
AnyValues == HeldValues \cup InlineValues

Any_FromValue_String ==
    \E v \in AnyValues : Convert("FromValue for String", v, FromValue_String(v, heap))
Any_UnsafeFromValue_Str ==
    \E v \in AnyValues :
        Convert("UnsafeFromValue for &str", v, UnsafeFromValue_Str(v, heap))
Any_UnsafeFromValue_MutStr ==
    \E v \in AnyValues :
        Convert("UnsafeFromValue for &mut str", v, UnsafeFromValue_MutStr(v, heap))
Any_UnsafeFromValue_RefString ==
    \E v \in AnyValues :
        Convert("UnsafeFromValue for &String", v, UnsafeFromValue_RefString(v, heap))
Any_UnsafeFromValue_MutString ==
    \E v \in AnyValues :
        Convert("UnsafeFromValue for &mut String", v, UnsafeFromValue_MutString(v, heap))

\* String and Bytes values are built, cloned and dropped, guards are dropped,
\* and the string conversions are given values of every case.
NextString ==
    \/ Call_ToValue_BoxStr
    \/ Call_Value_from_Bytes
    \/ CloneValue
    \/ DropValue
    \/ DropGuard
    \/ Any_FromValue_String
    \/ Any_UnsafeFromValue_Str
    \/ Any_UnsafeFromValue_MutStr
    \/ Any_UnsafeFromValue_RefString
    \/ Any_UnsafeFromValue_MutString

SpecString == Init /\ [][NextString]_vars

StringOps ==
    {"FromValue for String", "UnsafeFromValue for &str", "UnsafeFromValue for &mut str",
     "UnsafeFromValue for &String", "UnsafeFromValue for &mut String"}
StaticStringOps ==
    {"FromValue for String", "UnsafeFromValue for &str", "UnsafeFromValue for &String"}

\* The step left the borrow counters of every cell and the guards held on
\* every cell as they were.
NoBorrowAcquired ==
    /\ guards' = guards
    /\ \A c \in Cells :
        /\ heap'[c].shared = heap[c].shared
        /\ heap'[c].exclusive = heap[c].exclusive

\* C14 as a step: what a string conversion that has just returned did.
StringConversionStep ==
    (last'.op \in StringOps)
    => /\ (last'.arg.tag \notin {"String", "StaticString"})
            => /\ ~last'.ok
               /\ last'.err = "ExpectedType"
               /\ NoBorrowAcquired
       /\ (last'.arg.tag = "StaticString" /\ last'.op \in StaticStringOps)
            => /\ last'.ok
               /\ last'.guard = "none"
               /\ heap' = heap
               /\ NoBorrowAcquired
       /\ (last'.arg.tag = "StaticString" /\ last'.op \notin StaticStringOps)
            => /\ ~last'.ok
               /\ last'.err = "ExpectedType"
               /\ NoBorrowAcquired
       /\ (/\ last'.arg.tag = "String"
           /\ last'.op \in {"UnsafeFromValue for &str", "UnsafeFromValue for &String"}
           /\ last'.ok)
            => /\ last'.guard = "RawOwnedRef"
               /\ guards'[last'.arg.cell][<<"RawOwnedRef", "const">>]
                    = guards[last'.arg.cell][<<"RawOwnedRef", "const">>] + 1
               /\ heap'[last'.arg.cell].shared = heap[last'.arg.cell].shared + 1
               /\ heap'[last'.arg.cell].exclusive = heap[last'.arg.cell].exclusive
       /\ (/\ last'.arg.tag = "String"
           /\ last'.op \in {"UnsafeFromValue for &str", "UnsafeFromValue for &String"}
           /\ ~last'.ok)
            => /\ last'.err = "BorrowError"
               /\ heap[last'.arg.cell].exclusive = 1
               /\ NoBorrowAcquired

\* C14: a string conversion given a value that is neither String nor
\* StaticString fails with the expected-type error and acquires no borrow;
\* a StaticString is accepted by String::from_value, `&str` and `&String`
\* with the empty guard and no borrow, and rejected with the expected-type
\* error by `&mut str` and `&mut String`; whenever `&str` or `&String` returns
\* a guard for a Value::String it is a non-empty one holding one more shared
\* borrow of the cell (the call fails with a borrow error, and takes none,
\* only while the cell is mutably borrowed).
C14_StringCases == [][StringConversionStep]_vars

\* C14 witness: `&String` has accepted a StaticString with the empty guard
\* while a String cell is mutably borrowed.
C14_Witness ==
    /\ last.op = "UnsafeFromValue for &String"
    /\ last.arg.tag = "StaticString"
    /\ last.ok
    /\ last.guard = "none"
    /\ \E c \in Cells : heap[c].tag = "String" /\ heap[c].exclusive = 1

\* ------------------------------------------------- guards and cell lifetime
\* The guards the host holds on a cell.
GuardCount(c) == SharedGuards(guards[c]) + ExclusiveGuards(guards[c])

\* The pointer handed out with a guard on the cell can be used: the cell is
\* allocated and still holds its payload, and a Value inside the payload is
\* itself allocated.
PointerValid(c) ==
    /\ heap[c].rc > 0
    /\ ~heap[c].taken
    /\ heap[c].data.kind = heap[c].tag
    /\ heap[c].data # NoPayload
    /\ (heap[c].data.opt.some /\ heap[c].data.opt.value.cell \in Cells)
        => heap[heap[c].data.opt.value.cell].rc > 0

\* C15: a loan consumes the handle it is given and its guard holds the
\* reference in its place: while a guard is held the cell is allocated with
\* its payload in place, also when no handle is left (the loan was made
\* through the last handle, refcount 1), and a cell that is dropped has no
\* borrow counted and no guard outstanding.
C15_GuardKeepsCellAlive ==
    /\ \A c \in Cells :
        /\ GuardCount(c) > 0 => PointerValid(c)
        /\ heap[c].rc >= held[c] + GuardCount(c)
        /\ heap[c].rc = 0
            => (GuardCount(c) = 0 /\ heap[c].shared = 0 /\ heap[c].exclusive = 0)
    /\ (/\ last.op \in LoanOps
        /\ last.ok
        /\ last.arg.cell \in Cells)
       => /\ held[last.arg.cell] = last.pre.rc - 1 - SharedGuards(last.preg)
                                       - ExclusiveGuards(last.preg)
          /\ heap[last.arg.cell].rc = last.pre.rc
          /\ GuardCount(last.arg.cell) > 0

\* C15 witness: a `&mut String` loan was made through the only handle; the
\* host holds the guard and no handle, and the cell is alive.
C15_Witness ==
    /\ last.op = "UnsafeFromValue for &mut String"
    /\ last.ok
    /\ last.pre.rc = 1
    /\ held[last.arg.cell] = 0
    /\ heap[last.arg.cell].rc = 1
    /\ heap[last.arg.cell].data.kind = "String"
    /\ guards[last.arg.cell][<<"RawOwnedMut", "mut">>] = 1

====
